---- MODULE Spec2Model ----
(***************************************************************************)
(* Tag reconciliation and concurrent mirror engine of gen_sync_yaml_new.py *)
(* (class ImageSync and main).                                             *)
(*                                                                         *)
(* A tag is a sequence of one-character strings, so that the filters and   *)
(* the version key work on characters as the Python code does.  A registry *)
(* host and an image name are sequences of path segments: joining with "/" *)
(* is concatenation of segment sequences and split("/") is the identity on *)
(* them.  The alphabet is ASCII: letters, digits, "-", ".", "/", "_".      *)
(***************************************************************************)
EXTENDS Integers, Sequences, FiniteSets, Bags, TLC

(* ------------------------------------------------------------------ *)
(* Program constants                                                  *)
(* ------------------------------------------------------------------ *)
MAX_WORKERS == 8

MAX_TAGS_PER_IMAGE == 5

MaxTagLen == 40

HashSuffixLen == 9

TARGET_REPO == <<"registry.cn-hangzhou.aliyuncs.com", "ctrimg">>

EXCLUDE_KEYWORDS ==
  << <<"a","l","p","h","a">>, <<"b","e","t","a">>, <<"r","c">>,
     <<"d","e","v">>, <<"t","e","s","t">>, <<"a","m","d","6","4">>,
     <<"p","p","c","6","4","l","e">>, <<"a","r","m","6","4">>,
     <<"a","r","m">>, <<"s","3","9","0","x">>,
     <<"S","N","A","P","S","H","O","T">>, <<"d","e","b","u","g">>,
     <<"m","a","i","n">> >>

(* ------------------------------------------------------------------ *)
(* Characters and strings                                             *)
(* ------------------------------------------------------------------ *)
Digits == <<"0","1","2","3","4","5","6","7","8","9">>

UpperCase == <<"A","B","C","D","E","F","G","H","I","J","K","L","M",
               "N","O","P","Q","R","S","T","U","V","W","X","Y","Z">>

LowerCase == <<"a","b","c","d","e","f","g","h","i","j","k","l","m",
               "n","o","p","q","r","s","t","u","v","w","x","y","z">>

\* the alphabet in code-point order
Ascii == <<"-", ".", "/">> \o Digits \o UpperCase \o <<"_">> \o LowerCase

Range(f) == {f[i] : i \in DOMAIN f}

IndexOf(seq, x) == CHOOSE i \in DOMAIN seq : seq[i] = x

Ord(c) == IndexOf(Ascii, c)

IsDigitChar(c) == c \in Range(Digits)

\* \w of the re module restricted to ASCII
IsWordChar(c) == c \in Range(Digits) \cup Range(UpperCase) \cup Range(LowerCase) \cup {"_"}

LowerChar(c) == IF c \in Range(UpperCase) THEN LowerCase[IndexOf(UpperCase, c)] ELSE c

\* str.lower()
Lower(s) == [i \in DOMAIN s |-> LowerChar(s[i])]

\* `sub in s` for strings
Contains(s, sub) ==
  \E i \in 0..(Len(s) - Len(sub)) : \A j \in 1..Len(sub) : s[i + j] = sub[j]

\* s < t for Python strings (code-point order, a proper prefix is smaller)
StrLess(s, t) ==
  \/ \E k \in 1..Len(s) :
        /\ k <= Len(t)
        /\ \A j \in 1..(k - 1) : s[j] = t[j]
        /\ Ord(s[k]) < Ord(t[k])
  \/ /\ Len(s) < Len(t)
     /\ \A j \in 1..Len(s) : s[j] = t[j]

(* ------------------------------------------------------------------ *)
(* Tag Normalizer: ImageSync.is_exclude_tag                           *)
(* ------------------------------------------------------------------ *)
\* re.search(r"-\w{9,}", tag)
HashSuffixMatch(tag) ==
  \E i \in 1..Len(tag) :
     /\ tag[i] = "-"
     /\ i + HashSuffixLen <= Len(tag)
     /\ \A j \in 1..HashSuffixLen : IsWordChar(tag[i + j])

\* re.search(r"-\d+$", tag)
NumericSuffixMatch(tag) ==
  \E i \in 1..Len(tag) :
     /\ tag[i] = "-"
     /\ i < Len(tag)
     /\ \A j \in (i + 1)..Len(tag) : IsDigitChar(tag[j])

\* a bug that leaves out the exception for a numeric suffix
RejectHyphens(tag) ==
  IF Len(tag) = 0 THEN TRUE
  ELSE IF Len(tag) >= MaxTagLen THEN TRUE
  ELSE IF \E k \in DOMAIN EXCLUDE_KEYWORDS :
             Contains(Lower(tag), Lower(EXCLUDE_KEYWORDS[k])) THEN TRUE
  ELSE "-" \in Range(tag)

is_exclude_tag(tag) ==
  IF Len(tag) = 0 THEN TRUE
  ELSE IF Len(tag) >= MaxTagLen THEN TRUE
  ELSE IF \E k \in DOMAIN EXCLUDE_KEYWORDS :
             Contains(Lower(tag), Lower(EXCLUDE_KEYWORDS[k])) THEN TRUE
  ELSE IF HashSuffixMatch(tag) THEN TRUE
  ELSE IF NumericSuffixMatch(tag) THEN FALSE
  ELSE IF "-" \in Range(tag) THEN TRUE
  ELSE FALSE

(* ------------------------------------------------------------------ *)
(* Version Ranker: ImageSync._version_key and list.sort               *)
(* ------------------------------------------------------------------ *)
\* str.split("."): the list of dot-separated parts
RECURSIVE SplitDots(_)
SplitDots(s) ==
  IF \A i \in DOMAIN s : s[i] # "." THEN <<s>>
  ELSE LET d == CHOOSE i \in DOMAIN s :
                   /\ s[i] = "."
                   /\ \A j \in 1..(i - 1) : s[j] # "."
       IN  <<SubSeq(s, 1, d - 1)>> \o SplitDots(SubSeq(s, d + 1, Len(s)))

\* str.isdigit()
IsDigitStr(s) == Len(s) > 0 /\ \A i \in DOMAIN s : IsDigitChar(s[i])

\* int(part) of a digit string
RECURSIVE ToInt(_)
ToInt(s) ==
  IF Len(s) = 0 THEN 0
  ELSE 10 * ToInt(SubSeq(s, 1, Len(s) - 1)) + (IndexOf(Digits, s[Len(s)]) - 1)

\* one component of the key: an int or a str
KeyPart(part) ==
  IF IsDigitStr(part) THEN [num |-> TRUE, n |-> ToInt(part), s |-> <<>>]
  ELSE [num |-> FALSE, n |-> 0, s |-> part]

_version_key(version) ==
  LET v == IF Len(version) > 0 /\ version[1] = "v"
           THEN SubSeq(version, 2, Len(version)) ELSE version
      parts == SplitDots(v)
  IN  [i \in DOMAIN parts |-> KeyPart(parts[i])]

\* the first position at which two tuples differ, 0 when one is a prefix
FirstDiff(a, b) ==
  LET m == IF Len(a) < Len(b) THEN Len(a) ELSE Len(b)
      D == {i \in 1..m : a[i] # b[i]}
  IN  IF D = {} THEN 0 ELSE CHOOSE i \in D : \A j \in D : i <= j

\* a < b raises TypeError: an int meets a str at the first difference
KeyTypeError(a, b) ==
  LET d == FirstDiff(a, b) IN d # 0 /\ a[d].num # b[d].num

\* a < b for tuples whose comparison does not raise
KeyLess(a, b) ==
  LET d == FirstDiff(a, b)
  IN  IF d = 0 THEN Len(a) < Len(b)
      ELSE IF a[d].num THEN a[d].n < b[d].n
      ELSE StrLess(a[d].s, b[d].s)

\* the comparison one of the two sorts uses
VersionLess(s, t) == KeyLess(_version_key(s), _version_key(t))

TagLess(byKey, s, t) == IF byKey THEN VersionLess(s, t) ELSE StrLess(s, t)

\* insert x behind every element that does not rank below it (stable)
RECURSIVE InsertDesc(_, _, _)
InsertDesc(sorted, x, byKey) ==
  IF sorted = <<>> THEN <<x>>
  ELSE IF TagLess(byKey, Head(sorted), x) THEN <<x>> \o sorted
  ELSE <<Head(sorted)>> \o InsertDesc(Tail(sorted), x, byKey)

\* list.sort(reverse=True): descending, equal elements keep their order
RECURSIVE SortDesc(_, _)
SortDesc(seq, byKey) ==
  IF seq = <<>> THEN <<>>
  ELSE InsertDesc(SortDesc(SubSeq(seq, 1, Len(seq) - 1), byKey), seq[Len(seq)], byKey)

\* a bug that sorts the names and not the keys
SortLexical(tags) == SortDesc(tags, FALSE)

\* try: tags.sort(key=self._version_key, reverse=True)
\* except: tags.sort(reverse=True)
\* A sort compares the elements that end up adjacent, and an int/str clash
\* at the first difference of two keys puts the two next to each other,
\* so the first sort raises exactly when some pair of keys clashes.
SortTags(tags) ==
  IF \E i, j \in DOMAIN tags :
        KeyTypeError(_version_key(tags[i]), _version_key(tags[j]))
  THEN SortDesc(tags, FALSE)
  ELSE SortDesc(tags, TRUE)

\* [tag for tag in data.get('tags', []) if not self.is_exclude_tag(tag)]
Accepted(tag) == ~is_exclude_tag(tag)

FilterTags(raw) == SelectSeq(raw, Accepted)

(* ------------------------------------------------------------------ *)
(* Names, configurations and the registries of the environment        *)
(* ------------------------------------------------------------------ *)
\* an image name of the configuration: a str (its path segments), or a
\* YAML key of another type (an integer), with its text in segs
Img(segs) == [str |-> TRUE, segs |-> segs]

IntKey(text) == [str |-> FALSE, segs |-> <<text>>]

Last(seq) == seq[Len(seq)]

Take(seq, n) == SubSeq(seq, 1, IF n < Len(seq) THEN n ELSE Len(seq))

\* image.split('/')[-1]
BaseName(image) == Last(image.segs)

\* f"{repo}/{image}"
ImageKey(repo, image) == repo \o image.segs

\* the keys of self.source_handlers
Gcr == <<"gcr.io">>

DockerIo == <<"docker.io">>

SourceHandlers ==
  {Gcr, <<"k8s.gcr.io">>, <<"registry.k8s.io">>, <<"quay.io">>,
   <<"docker.elastic.co">>, <<"ghcr.io">>, DockerIo}

\* a host without a fetch strategy
Unsupported == <<"mirror.example.com">>

\* d[k] = v on a dict kept as the sequence of its items in insertion order
HasRepo(cfg, repo) == \E i \in DOMAIN cfg : cfg[i].repo = repo

WithRepo(cfg, repo) ==
  IF HasRepo(cfg, repo) THEN cfg ELSE Append(cfg, [repo |-> repo, images |-> <<>>])

SetImage(images, image, tags) ==
  IF \E i \in DOMAIN images : images[i].image = image
  THEN [i \in DOMAIN images |->
          IF images[i].image = image THEN [image |-> image, tags |-> tags]
          ELSE images[i]]
  ELSE Append(images, [image |-> image, tags |-> tags])

SetEntry(cfg, repo, image, tags) ==
  [i \in DOMAIN cfg |->
     IF cfg[i].repo = repo
     THEN [repo |-> repo, images |-> SetImage(cfg[i].images, image, tags)]
     ELSE cfg[i]]

\* the (repo, image, tags) items of a sync configuration, in dict order
RECURSIVE ImageItems(_, _)
ImageItems(repo, images) ==
  IF images = <<>> THEN <<>>
  ELSE <<[repo |-> repo, image |-> Head(images).image, tags |-> Head(images).tags]>>
       \o ImageItems(repo, Tail(images))

RECURSIVE ConfigItems(_)
ConfigItems(cfg) ==
  IF cfg = <<>> THEN <<>>
  ELSE ImageItems(Head(cfg).repo, Head(cfg).images) \o ConfigItems(Tail(cfg))

IsItem(x) == x.tags # <<>>

(* ------------------------------------------------------------------ *)
(* Source Tag Fetcher and Reconciler                                  *)
(* ------------------------------------------------------------------ *)
\* a handler: the request fails, or the payload is filtered and sorted
\* (get_docker_io_tags first wants "namespace/name")
HandlerTags(repo, image, ok, raw) ==
  IF repo = DockerIo /\ (~image.str \/ Len(image.segs) # 2) THEN <<>>
  ELSE IF ~ok THEN <<>>
  ELSE SortTags(FilterTags(raw))

get_source_tags(repo, image, ok, raw) ==
  IF repo \in SourceHandlers THEN HandlerTags(repo, image, ok, raw) ELSE <<>>

\* [tag for tag in source_tags if tag not in target_tags]
RECURSIVE NotIn(_, _)
NotIn(tags, target_tags) ==
  IF tags = <<>> THEN <<>>
  ELSE IF Head(tags) \in target_tags THEN NotIn(Tail(tags), target_tags)
  ELSE <<Head(tags)>> \o NotIn(Tail(tags), target_tags)

\* a bug that cuts the source list before the destination tags are removed
TruncateFirst(source_tags, target_tags) ==
  NotIn(Take(source_tags, MAX_TAGS_PER_IMAGE), target_tags)

\* lines 275-278 of compare_and_generate_sync_list
TagsToSync(source_tags, target_tags) ==
  Take(NotIn(source_tags, target_tags), MAX_TAGS_PER_IMAGE)

\* a bug that lets the curated tags bypass the destination diff
CustomNoDiff(expected_tags, target_tags) == expected_tags

\* line 515 of generate_custom_config
CustomTagsToSync(expected_tags, target_tags) == NotIn(expected_tags, target_tags)

\* a bug that keeps one cache slot for all images
OneSlot(image_name) == "*"

\* the key under which lru_cache keeps a call of get_target_tags
CacheKey(image_name) == image_name

(* ------------------------------------------------------------------ *)
(* Bounds and the inputs of a run                                     *)
(* ------------------------------------------------------------------ *)
\* number of tags the upstream registry serves for the large image
MaxUpstream == 6

\* length of the longest curated tag list
MaxCurated == 6

\* "<major>.<minor>"
NumTag(major, minor) == <<Digits[major + 1], ".">> \o
  (IF minor < 10 THEN <<Digits[minor + 1]>> ELSE <<"1", Digits[minor - 9]>>)

RcTag == <<"3", ".", "1", "-", "r", "c", "1">>

App == Img(<<"lib", "app">>)

Web == Img(<<"lib", "web">>)

WebTop == Img(<<"web">>)

Db == Img(<<"lib", "db">>)

Port == IntKey("8080")

\* the raw tag list a source registry returns for an image
Upstream(repo, image) ==
  IF repo = Gcr /\ image = App
    THEN [k \in 1..MaxUpstream |-> NumTag(2, k)] \o <<RcTag>>
  ELSE IF repo = Gcr /\ image = Web
    THEN <<NumTag(1, 0), RcTag, NumTag(1, 1)>>
  ELSE IF repo = Gcr /\ image = WebTop
    THEN <<NumTag(1, 0), NumTag(4, 0)>>
  ELSE IF repo = Gcr /\ image = Db
    THEN <<NumTag(0, 9), NumTag(0, 10)>>
  ELSE IF repo = DockerIo /\ image = App
    THEN <<NumTag(2, 8), NumTag(3, 0), NumTag(2, 6), NumTag(2, 9), NumTag(2, 7)>>
  ELSE IF image = Port
    THEN <<NumTag(1, 0)>>
  ELSE <<>>

NoFile == [exists |-> FALSE, repos |-> <<>>]

File(repos) == [exists |-> TRUE, repos |-> repos]

Outcomes == {"ok", "nonzero", "timeout", "exception"}

\* number of images of the plan that fills the worker pool
PoolItems == 9

PoolNames == <<"p1", "p2", "p3", "p4", "p5", "p6", "p7", "p8", "p9", "p10",
               "p11", "p12">>

PoolImage(k) == Img(<<"pool", PoolNames[k]>>)

\* the image base names the destination registry is asked about
BaseNames == {"app", "web", "db", "8080"} \cup Range(PoolNames)

NoDest == [b \in BaseNames |-> {}]

DestOf(app, web, db) ==
  [b \in BaseNames |->
     IF b = "app" THEN app ELSE IF b = "web" THEN web
     ELSE IF b = "db" THEN db ELSE {}]

\* main() on the two configuration files
MainRun(config, custom, dest0, outcomes) ==
  [entry |-> "main", config |-> config, custom |-> custom, dest |-> dest0,
   outcomes |-> outcomes, plan |-> <<>>]

\* concurrent_sync_images(plan) called on a configuration
CallRun(plan, dest0, outcomes) ==
  [entry |-> "call", config |-> NoFile, custom |-> NoFile, dest |-> dest0,
   outcomes |-> outcomes, plan |-> plan]

Curated == [k \in 1..MaxCurated |-> NumTag(2, k)]

Scenarios ==
  { \* two images of different base names
    MainRun(File(<<[repo |-> Gcr, images |-> <<Web, Db>>]>>), NoFile,
            DestOf({}, {NumTag(1, 0)}, {NumTag(0, 9)}), Outcomes),
    \* one base name under two names, a host without handler, curated tags
    MainRun(File(<<[repo |-> Gcr, images |-> <<Web, WebTop>>],
                   [repo |-> Unsupported, images |-> <<WebTop>>]>>),
            File(<<[repo |-> Gcr, images |->
                      <<[image |-> Db, tags |-> <<NumTag(0, 9), NumTag(0, 8)>>],
                        [image |-> Web, tags |-> <<NumTag(1, 0), NumTag(0, 5)>>]>>]>>),
            DestOf({}, {NumTag(1, 1), NumTag(1, 0)}, {NumTag(0, 9)}),
            {"ok", "nonzero"}),
    \* more upstream tags than the limit
    MainRun(File(<<[repo |-> Gcr, images |-> <<App>>]>>), NoFile,
            DestOf({NumTag(2, MaxUpstream - 1)}, {}, {}), {"ok", "timeout"}),
    \* a long curated list
    MainRun(NoFile, File(<<[repo |-> Gcr, images |->
                              <<[image |-> App, tags |-> Curated]>>]>>),
            DestOf({NumTag(2, MaxCurated + 1)}, {}, {}), {"ok"}),
    \* Docker Hub names and a key that is no string
    MainRun(File(<<[repo |-> DockerIo, images |-> <<App, WebTop>>],
                   [repo |-> Gcr, images |-> <<Port>>]>>), NoFile,
            DestOf({NumTag(2, 9), NumTag(2, 6)}, {}, {}), {"ok", "exception"}),
    \* an image listed twice
    MainRun(File(<<[repo |-> Gcr, images |-> <<Web, Web, Db>>]>>), NoFile,
            DestOf({}, {NumTag(1, 0)}, {NumTag(0, 9)}), {"ok"}),
    \* a registry that lists no tag, and a host without handler
    MainRun(File(<<[repo |-> <<"quay.io">>, images |-> <<Db>>],
                   [repo |-> Unsupported, images |-> <<Db, Web>>]>>), NoFile,
            DestOf({}, {}, {NumTag(0, 9)}), {"ok"}),
    \* direct calls
    CallRun(<<[repo |-> Gcr, images |->
                 <<[image |-> Port, tags |-> <<NumTag(1, 0)>>],
                   [image |-> Web, tags |-> <<NumTag(1, 1), NumTag(1, 0)>>]>>]>>,
            NoDest, Outcomes) }

(* ------------------------------------------------------------------ *)
(* State                                                              *)
(* ------------------------------------------------------------------ *)
VARIABLES
  entry,         \* "main": main() runs; "call": concurrent_sync_images is called
  configFile,    \* config.yaml
  customFile,    \* custom_sync.yaml
  syncFile,      \* sync.yaml
  syncLog,       \* sync.log
  dest,          \* the destination registry: base name -> set of tags
  copyOutcomes,  \* the outcomes the copy primitive can have in this run
  mainpc,        \* position of the main thread
  futures,       \* the reconciliations submitted to the thread pool
  cache,         \* lru_cache of get_target_tags: base name -> set of tags
  dynConfig,     \* sync_config of generate_dynamic_config
  customConfig,  \* sync_config of generate_custom_config
  customTodo,    \* the custom images generate_custom_config has not reached
  allConfig,     \* all_sync_config of main / the argument of the call
  tasks,         \* tasks of concurrent_sync_images not yet put
  queue,         \* self.sync_queue
  unfinished,    \* the queue's count of unfinished tasks
  idle,          \* number of worker threads blocked in sync_queue.get()
  exited,        \* number of worker threads that have left sync_worker
  busy,          \* bag of the workers inside sync_single_image
  sync_results,  \* self.sync_results: key -> result
  returned,      \* what concurrent_sync_images returned
  copyLog,       \* bag of the copy invocations made, with their outcomes
  srcFailed,     \* the reconciliations whose source request failed
  dstFailed,     \* base names for which a destination read failed
  destReads,     \* base name -> number of requests get_target_tags has sent
  filesBefore,   \* config.yaml and custom_sync.yaml as they were before the run
  tagsIn,        \* a source handler alone: the tags of the response payload
  all_tags,      \* a source handler alone: its list all_tags
  fpc            \* a source handler alone: its position

vars == <<entry, configFile, customFile, syncFile, syncLog, dest, copyOutcomes,
          mainpc, futures, cache, dynConfig, customConfig, customTodo,
          allConfig, tasks, queue, unfinished, idle, exited, busy,
          sync_results, returned, copyLog, srcFailed, dstFailed, destReads,
          filesBefore, tagsIn, all_tags, fpc>>

fetchVars == <<tagsIn, all_tags, fpc>>

planVars == <<futures, cache, dynConfig, customConfig, customTodo, srcFailed, dstFailed, destReads>>

fileVars == <<configFile, customFile, syncFile, syncLog>>

execVars == <<tasks, queue, unfinished, idle, exited, busy, sync_results,
              returned, copyLog, dest>>

NoCache == <<>>

InitOf(sc) ==
  /\ entry = sc.entry
  /\ configFile = sc.config
  /\ customFile = sc.custom
  /\ syncFile = NoFile
  /\ syncLog = [exists |-> FALSE, results |-> <<>>]
  /\ dest = sc.dest
  /\ copyOutcomes = sc.outcomes
  /\ mainpc = IF sc.entry = "main" THEN "start" ELSE "call"
  /\ futures = <<>>
  /\ cache = NoCache
  /\ dynConfig = <<>>
  /\ customConfig = <<>>
  /\ customTodo = <<>>
  /\ allConfig = sc.plan
  /\ tasks = <<>>
  /\ queue = <<>>
  /\ unfinished = 0
  /\ idle = 0
  /\ exited = 0
  /\ busy = EmptyBag
  /\ sync_results = <<>>
  /\ returned = <<>>
  /\ copyLog = EmptyBag
  /\ srcFailed = {}
  /\ dstFailed = {}
  /\ destReads = [b \in BaseNames |-> 0]
  /\ filesBefore = [config |-> sc.config, custom |-> sc.custom]

\* no source handler runs on its own
NoFetch ==
  /\ tagsIn = <<>>
  /\ all_tags = <<>>
  /\ fpc = "none"

Init == NoFetch /\ \E sc \in Scenarios : InitOf(sc)

(* ------------------------------------------------------------------ *)
(* Plan Aggregator: generate_dynamic_config                           *)
(* ------------------------------------------------------------------ *)
\* sync_config[repo] = {'images': {}} for every repo that lists images
RECURSIVE DynRepos(_)
DynRepos(repos) ==
  IF repos = <<>> THEN <<>>
  ELSE IF Head(repos).images = <<>> THEN DynRepos(Tail(repos))
  ELSE <<[repo |-> Head(repos).repo, images |-> <<>>]>> \o DynRepos(Tail(repos))

Future(repo, image) ==
  [repo |-> repo, image |-> image, st |-> "pending", src |-> <<>>,
   dst |-> "none", tt |-> {}, res |-> <<>>]

\* tasks.append((repo, image)), one future each
RECURSIVE DynTasks(_)
DynTasks(repos) ==
  IF repos = <<>> THEN <<>>
  ELSE [k \in DOMAIN Head(repos).images |->
          Future(Head(repos).repo, Head(repos).images[k])]
       \o DynTasks(Tail(repos))

GenDynStart ==
  /\ mainpc = "start"
  /\ IF configFile.exists
     THEN /\ dynConfig' = DynRepos(configFile.repos)
          /\ futures' = DynTasks(configFile.repos)
          /\ mainpc' = "collect"
     ELSE /\ dynConfig' = <<>>
          /\ futures' = <<>>
          /\ mainpc' = "custom"
  /\ UNCHANGED <<fetchVars, filesBefore, entry, fileVars, copyOutcomes, cache, customConfig, customTodo,
                 allConfig, execVars, srcFailed, dstFailed, destReads>>

Running == {j \in DOMAIN futures : futures[j].st \in {"fetch", "dest"}}

\* a pool thread takes the next submitted call
PoolStart(i) ==
  /\ futures[i].st = "pending"
  /\ \A j \in 1..(i - 1) : futures[j].st # "pending"
  /\ Cardinality(Running) < MAX_WORKERS
  /\ futures' = [futures EXCEPT ![i].st = "fetch"]
  /\ UNCHANGED <<fetchVars, filesBefore, entry, fileVars, dest, copyOutcomes, mainpc, cache, dynConfig,
                 customConfig, customTodo, allConfig, tasks, queue, unfinished,
                 idle, exited, busy, sync_results, returned, copyLog,
                 srcFailed, dstFailed, destReads>>

\* whether get_source_tags sends a request at all
Requests(repo, image) ==
  /\ repo \in SourceHandlers
  /\ ~(repo = DockerIo /\ (~image.str \/ Len(image.segs) # 2))

\* get_target_tags on a miss: the tag set, or set() when the read fails
TargetTags(ok, tags) == IF ok THEN tags ELSE {}

\* a bug that serves an empty set on a cache hit
CacheStale(c, key) == {}

\* a cache hit: the result stored for the key
CacheGet(c, key) == c[key]

\* lru_cache keeps the first result stored for a key
CachePut(c, key, value) ==
  IF key \in DOMAIN c THEN c
  ELSE [k \in DOMAIN c \cup {key} |-> IF k = key THEN value ELSE c[k]]

\* compare_and_generate_sync_list up to the destination lookup: the source
\* request returns; an empty list, or an image name without split(), ends
\* the call with []; a cached destination set ends it with the plan entry
FetchDone(i, ok) ==
  LET f == futures[i]
      src == get_source_tags(f.repo, f.image, ok, Upstream(f.repo, f.image))
  IN  /\ f.st = "fetch"
      /\ ok \/ Requests(f.repo, f.image)
      /\ srcFailed' = IF ok THEN srcFailed ELSE srcFailed \cup {i}
      /\ IF src = <<>> \/ ~f.image.str
         THEN futures' = [futures EXCEPT ![i].st = "finished", ![i].src = src]
         ELSE IF CacheKey(BaseName(f.image)) \in DOMAIN cache
         THEN futures' = [futures EXCEPT
                 ![i].st = "finished", ![i].src = src, ![i].dst = "hit",
                 ![i].tt = CacheGet(cache, CacheKey(BaseName(f.image))),
                 ![i].res = TagsToSync(src, CacheGet(cache, CacheKey(BaseName(f.image))))]
         ELSE futures' = [futures EXCEPT ![i].st = "dest", ![i].src = src]
      /\ UNCHANGED <<fetchVars, filesBefore, entry, fileVars, dest, copyOutcomes, mainpc, cache, dynConfig,
                     customConfig, customTodo, allConfig, tasks, queue,
                     unfinished, idle, exited, busy, sync_results, returned,
                     copyLog, dstFailed, destReads>>

\* the destination read returns and the call computes its plan entry
DestDone(i, ok) ==
  LET f == futures[i]
      base == BaseName(f.image)
      tt == TargetTags(ok, dest[base])
  IN  /\ f.st = "dest"
      /\ cache' = CachePut(cache, CacheKey(base), tt)
      /\ dstFailed' = IF ok THEN dstFailed ELSE dstFailed \cup {base}
      /\ destReads' = [destReads EXCEPT ![base] = @ + 1]
      /\ futures' = [futures EXCEPT
            ![i].st = "finished", ![i].dst = IF ok THEN "ok" ELSE "fail",
            ![i].tt = tt, ![i].res = TagsToSync(f.src, tt)]
      /\ UNCHANGED <<fetchVars, filesBefore, entry, fileVars, dest, copyOutcomes, mainpc, dynConfig,
                     customConfig, customTodo, allConfig, tasks, queue,
                     unfinished, idle, exited, busy, sync_results, returned,
                     copyLog, srcFailed>>

\* one round of the as_completed loop
Collect(i) ==
  /\ mainpc = "collect"
  /\ futures[i].st = "finished"
  /\ futures' = [futures EXCEPT ![i].st = "collected"]
  /\ dynConfig' = IF futures[i].res # <<>>
                  THEN SetEntry(dynConfig, futures[i].repo, futures[i].image,
                                futures[i].res)
                  ELSE dynConfig
  /\ UNCHANGED <<fetchVars, filesBefore, entry, fileVars, dest, copyOutcomes, mainpc, cache,
                 customConfig, customTodo, allConfig, tasks, queue, unfinished,
                 idle, exited, busy, sync_results, returned, copyLog,
                 srcFailed, dstFailed, destReads>>

\* save_config: yaml.safe_dump of the configuration
Saved(config) == File(config)

\* a bug that ends the aggregation at the first result
AnyCollected(fs) == \E i \in DOMAIN fs : fs[i].st = "collected"

\* the as_completed loop has taken every future, and the executor's
\* `with` block has ended
AllCollected(fs) == \A i \in DOMAIN fs : fs[i].st = "collected"

\* generate_dynamic_config returns; main saves a non-empty result
DynDone ==
  /\ mainpc = "collect"
  /\ AllCollected(futures)
  /\ syncFile' = IF dynConfig # <<>> THEN Saved(dynConfig) ELSE syncFile
  /\ mainpc' = "custom"
  /\ UNCHANGED <<fetchVars, filesBefore, entry, configFile, customFile, syncLog, dest, copyOutcomes,
                 planVars, allConfig, tasks, queue, unfinished, idle, exited,
                 busy, sync_results, returned, copyLog>>

(* ------------------------------------------------------------------ *)
(* generate_custom_config                                             *)
(* ------------------------------------------------------------------ *)
\* sync_config[repo] = {'images': {}} for every repo of the custom file
CustomRepos(repos) == [k \in DOMAIN repos |-> [repo |-> repos[k].repo, images |-> <<>>]]

CustomStart ==
  /\ mainpc = "custom"
  /\ IF customFile.exists
     THEN /\ customConfig' = CustomRepos(customFile.repos)
          /\ customTodo' = SelectSeq(ConfigItems(customFile.repos), IsItem)
          /\ mainpc' = "custom_loop"
     ELSE /\ customConfig' = <<>>
          /\ customTodo' = <<>>
          /\ mainpc' = "merge"
  /\ UNCHANGED <<fetchVars, filesBefore, entry, fileVars, dest, copyOutcomes, futures, cache, dynConfig,
                 allConfig, tasks, queue, unfinished, idle, exited, busy,
                 sync_results, returned, copyLog, srcFailed, dstFailed, destReads>>

\* one curated image: lines 506-519
CustomEntry(ok) ==
  LET it == Head(customTodo)
      base == BaseName(it.image)
      hit == CacheKey(base) \in DOMAIN cache
      tt == IF hit THEN CacheGet(cache, CacheKey(base)) ELSE TargetTags(ok, dest[base])
      sync == CustomTagsToSync(it.tags, tt)
  IN  /\ mainpc = "custom_loop"
      /\ customTodo # <<>>
      /\ ok \/ ~hit
      /\ customTodo' = Tail(customTodo)
      /\ cache' = CachePut(cache, CacheKey(base), tt)
      /\ dstFailed' = IF ok THEN dstFailed ELSE dstFailed \cup {base}
      /\ destReads' = IF hit THEN destReads ELSE [destReads EXCEPT ![base] = @ + 1]
      /\ customConfig' = IF sync # <<>>
                         THEN SetEntry(customConfig, it.repo, it.image, sync)
                         ELSE customConfig
      /\ UNCHANGED <<fetchVars, filesBefore, entry, fileVars, dest, copyOutcomes, mainpc, futures,
                     dynConfig, allConfig, tasks, queue, unfinished, idle,
                     exited, busy, sync_results, returned, copyLog, srcFailed>>

\* generate_custom_config returns; main saves a non-empty result over
\* the custom file
CustomDone ==
  /\ mainpc = "custom_loop"
  /\ customTodo = <<>>
  /\ customFile' = IF customConfig # <<>> THEN Saved(customConfig) ELSE customFile
  /\ mainpc' = "merge"
  /\ UNCHANGED <<fetchVars, filesBefore, entry, configFile, syncFile, syncLog, dest, copyOutcomes,
                 planVars, allConfig, tasks, queue, unfinished, idle, exited,
                 busy, sync_results, returned, copyLog>>

\* all_sync_config[repo]['images'].update(repo_config['images'])
RECURSIVE UpdateImages(_, _, _)
UpdateImages(all, repo, images) ==
  IF images = <<>> THEN all
  ELSE UpdateImages(SetEntry(all, repo, Head(images).image, Head(images).tags),
                    repo, Tail(images))

RECURSIVE MergeConfig(_, _)
MergeConfig(all, cfg) ==
  IF cfg = <<>> THEN all
  ELSE MergeConfig(UpdateImages(WithRepo(all, Head(cfg).repo), Head(cfg).repo,
                                Head(cfg).images),
                   Tail(cfg))

\* main, lines 561-587
Merge ==
  /\ mainpc = "merge"
  /\ allConfig' = MergeConfig(MergeConfig(<<>>, dynConfig), customConfig)
  /\ mainpc' = IF allConfig' # <<>> THEN "call" ELSE "done"
  /\ UNCHANGED <<fetchVars, filesBefore, entry, fileVars, dest, copyOutcomes, planVars, tasks, queue,
                 unfinished, idle, exited, busy, sync_results, returned, copyLog>>

(* ------------------------------------------------------------------ *)
(* Mirror Executor: concurrent_sync_images, sync_worker,              *)
(* sync_single_image                                                  *)
(* ------------------------------------------------------------------ *)
Min(a, b) == IF a < b THEN a ELSE b

\* one task per tag instead of one per image
RECURSIVE SplitTags(_)
SplitTags(items) ==
  IF items = <<>> THEN <<>>
  ELSE [k \in DOMAIN Head(items).tags |->
          [repo |-> Head(items).repo, image |-> Head(items).image,
           tags |-> <<Head(items).tags[k]>>]]
       \o SplitTags(Tail(items))

TasksPerTag(sync_config) == SplitTags(SelectSeq(ConfigItems(sync_config), IsItem))

\* lines 385-389: one task per image that has tags
ExecTasks(sync_config) == SelectSeq(ConfigItems(sync_config), IsItem)

\* a bug that starts one thread per task
ThreadPerTask(n) == n

\* range(min(MAX_WORKERS, len(tasks)))
NumThreads(n) == Min(MAX_WORKERS, n)

QItem(task) == [none |-> FALSE, task |-> task]

NoTask == [repo |-> <<>>, image |-> Img(<<>>), tags |-> <<>>]

\* the end signal
QNone == [none |-> TRUE, task |-> NoTask]

EmptyDict == <<>>

\* an update without the lock that loses the entries of the other workers
LostUpdate(d, key, value) == [k \in {key} |-> value]

\* d[key] = value
DictSet(d, key, value) ==
  [k \in DOMAIN d \cup {key} |-> IF k = key THEN value ELSE d[k]]

Threads == idle + exited + BagCardinality(busy)

\* the tasks are listed and the worker threads started; each blocks in get()
ExecStart ==
  /\ mainpc = "call"
  /\ IF ExecTasks(allConfig) = <<>>
     THEN /\ returned' = EmptyDict
          /\ mainpc' = "returned"
          /\ UNCHANGED <<tasks, idle>>
     ELSE /\ tasks' = ExecTasks(allConfig)
          /\ idle' = NumThreads(Len(ExecTasks(allConfig)))
          /\ mainpc' = "put"
          /\ UNCHANGED returned
  /\ UNCHANGED <<fetchVars, filesBefore, entry, fileVars, dest, copyOutcomes, planVars, allConfig,
                 queue, unfinished, exited, busy, sync_results, copyLog>>

\* self.sync_queue.put(task)
Put ==
  /\ mainpc = "put"
  /\ tasks # <<>>
  /\ queue' = Append(queue, QItem(Head(tasks)))
  /\ unfinished' = unfinished + 1
  /\ tasks' = Tail(tasks)
  /\ mainpc' = IF Tail(tasks) = <<>> THEN "join" ELSE "put"
  /\ UNCHANGED <<fetchVars, filesBefore, entry, fileVars, dest, copyOutcomes, planVars, allConfig,
                 idle, exited, busy, sync_results, returned, copyLog>>

\* sync_queue.join() returns; one end signal is put for every thread
Join ==
  /\ mainpc = "join"
  /\ unfinished = 0
  /\ queue' = queue \o [k \in 1..Threads |-> QNone]
  /\ unfinished' = unfinished + Threads
  /\ mainpc' = "wait"
  /\ UNCHANGED <<fetchVars, filesBefore, entry, fileVars, dest, copyOutcomes, planVars, allConfig,
                 tasks, idle, exited, busy, sync_results, returned, copyLog>>

\* every thread.join(timeout=10) has returned, by exit or by timeout
Return ==
  /\ mainpc = "wait"
  /\ returned' = sync_results
  /\ mainpc' = "returned"
  /\ UNCHANGED <<fetchVars, filesBefore, entry, fileVars, dest, copyOutcomes, planVars, allConfig,
                 tasks, queue, unfinished, idle, exited, busy, sync_results,
                 copyLog>>

\* main, lines 579-590: save_sync_results
Finish ==
  /\ mainpc = "returned"
  /\ entry = "main"
  /\ syncLog' = [exists |-> TRUE, results |-> returned]
  /\ mainpc' = "done"
  /\ UNCHANGED <<fetchVars, filesBefore, entry, configFile, customFile, syncFile, dest, copyOutcomes,
                 planVars, allConfig, tasks, queue, unfinished, idle, exited,
                 busy, sync_results, returned, copyLog>>

\* what sync_queue.get() does to the queue
Dequeue(q) == Tail(q)

\* a worker of sync_single_image: the task, the index of the next tag
\* and the results so far
Worker(task) == [task |-> task, i |-> 1, results |-> <<>>]

\* sync_queue.get() returns to a blocked worker
WorkerGet ==
  /\ idle > 0
  /\ queue # <<>>
  /\ queue' = Dequeue(queue)
  /\ \/ \* the end signal: break
        /\ Head(queue).none
        /\ idle' = idle - 1
        /\ exited' = exited + 1
        /\ UNCHANGED busy
     \/ \* image.split of sync_single_image raises: the handler of
        \* sync_worker logs, and the loop goes back to get()
        /\ ~Head(queue).none
        /\ ~Head(queue).task.image.str
        /\ UNCHANGED <<idle, exited, busy>>
     \/ \* sync_single_image enters its loop over the tags
        /\ ~Head(queue).none
        /\ Head(queue).task.image.str
        /\ idle' = idle - 1
        /\ busy' = busy (+) SetToBag({Worker(Head(queue).task)})
        /\ UNCHANGED exited
  /\ UNCHANGED <<fetchVars, filesBefore, entry, fileVars, dest, copyOutcomes, mainpc, planVars,
                 allConfig, tasks, unfinished, sync_results, returned, copyLog>>

\* the record appended to results for one tag (without its duration)
CopyRecord(tag, outcome) ==
  [tag |-> tag, success |-> outcome = "ok",
   error |-> IF outcome = "ok" THEN "" ELSE IF outcome = "nonzero" THEN "stderr"
             ELSE IF outcome = "timeout" THEN "timeout" ELSE "exception"]

\* a bug that tries a tag again after a timeout
LoopRetry(i, n, outcome) == IF outcome = "timeout" THEN i ELSE i + 1

\* a bug that leaves the loop at the first failure
LoopAbort(i, n, outcome) == IF outcome = "ok" THEN i + 1 ELSE n + 1

\* `for tag in tags`: the index of the next round, whatever the outcome
LoopNext(i, n, outcome) == i + 1

\* one round of the loop of sync_single_image: skopeo copy of one tag
\* returns, fails, times out or cannot be run
WorkerCopy(w, outcome) ==
  LET t == w.task
      tag == t.tags[w.i]
  IN  /\ BagIn(w, busy)
      /\ w.i <= Len(t.tags)
      /\ busy' = (busy (-) SetToBag({w})) (+)
                 SetToBag({[w EXCEPT !.i = LoopNext(w.i, Len(t.tags), outcome),
                                     !.results = Append(@, CopyRecord(tag, outcome))]})
      /\ copyLog' = copyLog (+)
            SetToBag({[repo |-> t.repo, image |-> t.image, tag |-> tag,
                       outcome |-> outcome]})
      /\ dest' = IF outcome = "ok"
                 THEN [dest EXCEPT ![BaseName(t.image)] = @ \cup {tag}]
                 ELSE dest
      /\ UNCHANGED <<fetchVars, filesBefore, entry, fileVars, copyOutcomes, mainpc, planVars, allConfig,
                     tasks, queue, unfinished, idle, exited, sync_results,
                     returned>>

\* a bug that calls an image synced when any tag was
AnySuccess(task, results) ==
  [source |-> ImageKey(task.repo, task.image),
   target |-> TARGET_REPO \o <<BaseName(task.image)>>,
   results |-> results,
   success_count |-> Cardinality({k \in DOMAIN results : results[k].success}),
   total_count |-> Len(results),
   success |-> \E k \in DOMAIN results : results[k].success]

SuccessCount(results) == Cardinality({k \in DOMAIN results : results[k].success})

\* the dict sync_single_image returns
ImageResult(task, results) ==
  [source |-> ImageKey(task.repo, task.image),
   target |-> TARGET_REPO \o <<BaseName(task.image)>>,
   results |-> results,
   success_count |-> SuccessCount(results),
   total_count |-> Len(results),
   success |-> SuccessCount(results) = Len(results)]

\* sync_single_image returns; the result is stored under the lock and
\* the task marked done
WorkerDone(w) ==
  /\ BagIn(w, busy)
  /\ w.i > Len(w.task.tags)
  /\ sync_results' = DictSet(sync_results, ImageKey(w.task.repo, w.task.image),
                             ImageResult(w.task, w.results))
  /\ unfinished' = unfinished - 1
  /\ busy' = busy (-) SetToBag({w})
  /\ idle' = idle + 1
  /\ UNCHANGED <<fetchVars, filesBefore, entry, fileVars, dest, copyOutcomes, mainpc, planVars,
                 allConfig, tasks, queue, exited, returned, copyLog>>

(* ------------------------------------------------------------------ *)
(* Specification                                                      *)
(* ------------------------------------------------------------------ *)
Next ==
  \/ GenDynStart
  \/ \E i \in DOMAIN futures : PoolStart(i)
  \/ \E i \in DOMAIN futures, ok \in BOOLEAN : FetchDone(i, ok)
  \/ \E i \in DOMAIN futures, ok \in BOOLEAN : DestDone(i, ok)
  \/ \E i \in DOMAIN futures : Collect(i)
  \/ DynDone
  \/ CustomStart
  \/ \E ok \in BOOLEAN : CustomEntry(ok)
  \/ CustomDone
  \/ Merge
  \/ ExecStart
  \/ Put
  \/ Join
  \/ Return
  \/ Finish
  \/ WorkerGet
  \/ \E w \in BagToSet(busy), o \in copyOutcomes : WorkerCopy(w, o)
  \/ \E w \in BagToSet(busy) : WorkerDone(w)

Spec == Init /\ [][Next]_vars

\* the executor alone, on a plan of more images than the pool has threads
PoolPlan ==
  <<[repo |-> Gcr, images |->
       [k \in 1..PoolItems |-> [image |-> PoolImage(k), tags |-> <<NumTag(1, 0)>>]]]>>

InitPool == NoFetch /\ InitOf(CallRun(PoolPlan, NoDest, {"ok"}))

NextPool ==
  \/ ExecStart
  \/ Put
  \/ Join
  \/ Return
  \/ WorkerGet
  \/ \E w \in BagToSet(busy), o \in copyOutcomes : WorkerCopy(w, o)
  \/ \E w \in BagToSet(busy) : WorkerDone(w)

SpecPool == InitPool /\ [][NextPool]_vars

(* ------------------------------------------------------------------ *)
(* A source handler on its own: request, filter, sort                 *)
(* ------------------------------------------------------------------ *)
\* length of the longest response payload
MaxRaw == 3

V1_2_0 == <<"1", ".", "2", ".", "0">>

V1_10_0 == <<"1", ".", "1", "0", ".", "0">>

V1_2_10 == <<"1", ".", "2", ".", "1", "0">>

Vv1_2_0 == <<"v", "1", ".", "2", ".", "0">>

V1_9 == <<"1", ".", "9">>

Stable == <<"s", "t", "a", "b", "l", "e">>

Slash == <<"a", "/", "b">>

HashTag == <<"1", ".", "0", "-", "a", "b", "c", "d", "e", "f", "1", "2", "3">>

BetaTag == <<"1", ".", "0", ".", "B", "e", "t", "a">>

Rev1 == <<"1", ".", "0", "-", "1">>

Rev8 == <<"1", ".", "0", "-", "1", "2", "3", "4", "5", "6", "7", "8">>

Rev9 == <<"1", ".", "0", "-", "1", "2", "3", "4", "5", "6", "7", "8", "9">>

DashX == <<"1", ".", "0", "-", "x">>

\* n times the letter x
Xs(n) == [i \in 1..n |-> "x"]

\* the tags a registry may list
TagPool ==
  {V1_2_0, V1_10_0, V1_2_10, Vv1_2_0, V1_9, Stable, Slash, HashTag, BetaTag,
   Rev1, Rev8, Rev9, DashX, Xs(MaxTagLen), Xs(MaxTagLen - 1),
   Xs(MaxTagLen - 2) \o <<"-", "1">>}

\* data.get('tags', []): lists of distinct tags
RawLists ==
  {l \in UNION {[1..n -> TagPool] : n \in 1..MaxRaw} :
     \A i, j \in DOMAIN l : l[i] = l[j] => i = j}

InitFetch ==
  /\ InitOf(CallRun(<<>>, NoDest, {}))
  /\ tagsIn \in RawLists
  /\ all_tags = <<>>
  /\ fpc = "request"

runVars == <<entry, fileVars, dest, copyOutcomes, mainpc, planVars, allConfig,
             tasks, queue, unfinished, idle, exited, busy, sync_results,
             returned, copyLog, filesBefore>>

\* the request fails and the handler returns []; or the response is
\* read and its tags are filtered
HandlerFilter(ok) ==
  /\ fpc = "request"
  /\ IF ok
     THEN /\ all_tags' = FilterTags(tagsIn)
          /\ fpc' = "filtered"
     ELSE /\ all_tags' = <<>>
          /\ fpc' = "failed"
  /\ UNCHANGED <<tagsIn, runVars>>

\* the two sorts; the handler returns all_tags
HandlerSort ==
  /\ fpc = "filtered"
  /\ all_tags' = SortTags(all_tags)
  /\ fpc' = "sorted"
  /\ UNCHANGED <<tagsIn, runVars>>

NextFetch ==
  \/ \E ok \in BOOLEAN : HandlerFilter(ok)
  \/ HandlerSort

SpecFetch == InitFetch /\ [][NextFetch]_vars

(* ------------------------------------------------------------------ *)
(* Properties                                                         *)
(* ------------------------------------------------------------------ *)
\* the entries of a sync configuration that list tags
PlanEntries(cfg) == Range(SelectSeq(ConfigItems(cfg), IsItem))

\* the planning of main() is still running or has just ended: no copy yet
Planning == entry = "main" /\ copyLog = EmptyBag

\* how often the copy primitive was invoked for a tag of an image
Invocations(repo, image, tag) ==
  LET hits == {e \in BagToSet(copyLog) :
                 e.repo = repo /\ e.image = image /\ e.tag = tag}
      RECURSIVE Sum(_)
      Sum(S) == IF S = {} THEN 0
                ELSE LET e == CHOOSE x \in S : TRUE
                     IN  CopiesIn(e, copyLog) + Sum(S \ {e})
  IN  Sum(hits)

\* the call of concurrent_sync_images has ended
Returned == mainpc \in {"returned", "done"}

C3_PlanAbsent ==
  Planning =>
    /\ \A cfg \in {dynConfig, customConfig, allConfig} :
          \A e \in PlanEntries(cfg) :
             BaseName(e.image) \notin dstFailed =>
                \A k \in DOMAIN e.tags : e.tags[k] \notin dest[BaseName(e.image)]
    /\ \A i \in DOMAIN futures :
          futures[i].dst = "ok" =>
             \A k \in DOMAIN futures[i].res :
                futures[i].res[k] \notin dest[BaseName(futures[i].image)]

\* a merged plan with a dynamic and a curated entry, each cut down by a
\* destination set that was read
C3_Witness ==
  /\ Planning
  /\ mainpc = "call"
  /\ dstFailed = {}
  /\ \E d \in PlanEntries(dynConfig), c \in PlanEntries(customConfig) :
        /\ d \in PlanEntries(allConfig) /\ c \in PlanEntries(allConfig)
        /\ dest[BaseName(d.image)] # {} /\ dest[BaseName(c.image)] # {}
        /\ \E k \in DOMAIN Upstream(d.repo, d.image) :
              Upstream(d.repo, d.image)[k] \in dest[BaseName(d.image)]

\* the indices of S whose tag is not in D
Kept(S, D) == {i \in DOMAIN S : S[i] \notin D}

\* r is the first L elements of S without the members of D, in S's order
IsFirstMissing(r, S, D, L) ==
  /\ Len(r) = Min(L, Cardinality(Kept(S, D)))
  /\ \A k \in DOMAIN r :
        \E i \in Kept(S, D) :
           /\ Cardinality({j \in Kept(S, D) : j <= i}) = k
           /\ r[k] = S[i]

\* a reconciliation that compared the source list with a destination set
Compared(f) == f.st \in {"finished", "collected"} /\ f.dst # "none"

\* C4: a reconciliation returns the first MAX_TAGS_PER_IMAGE elements of
\* the ranked source list without the members of the destination set, in
\* the order of the source list.
C4_Reconcile ==
  \A i \in DOMAIN futures :
     /\ Compared(futures[i]) =>
           IsFirstMissing(futures[i].res, futures[i].src, futures[i].tt,
                          MAX_TAGS_PER_IMAGE)
     /\ (Planning /\ futures[i].dst = "ok") =>
           IsFirstMissing(futures[i].res, futures[i].src,
                          dest[BaseName(futures[i].image)], MAX_TAGS_PER_IMAGE)

\* the example of the claim, and a source list longer than the limit whose
\* destination holds one of its first tags
C4_Example ==
  \E i \in DOMAIN futures :
     /\ Compared(futures[i])
     /\ futures[i].src = <<NumTag(3, 0), NumTag(2, 9), NumTag(2, 8),
                           NumTag(2, 7), NumTag(2, 6)>>
     /\ futures[i].tt = {NumTag(2, 9), NumTag(2, 6)}
     /\ futures[i].res = <<NumTag(3, 0), NumTag(2, 8), NumTag(2, 7)>>

\* C5 as stated: every entry of the plan handed to the executor holds at
\* most MAX_TAGS_PER_IMAGE tags.
C5_PlanBounded ==
  (entry = "main" /\ mainpc = "call") =>
     \A e \in PlanEntries(allConfig) : Len(e.tags) <= MAX_TAGS_PER_IMAGE

\* a long curated list reaches the executor whole
C5_Witness ==
  /\ entry = "main"
  /\ mainpc = "call"
  /\ \E e \in PlanEntries(customConfig) :
        e \in PlanEntries(allConfig) /\ Len(e.tags) > MAX_TAGS_PER_IMAGE

\* the per-tag records of the outcome map for a tag of an image
Records(results, repo, image, tag) ==
  IF ImageKey(repo, image) \in DOMAIN results
  THEN {k \in DOMAIN results[ImageKey(repo, image)].results :
          results[ImageKey(repo, image)].results[k].tag = tag}
  ELSE {}

\* the outcomes logged for the invocations of a tag of an image
LoggedOutcomes(repo, image, tag) ==
  {e.outcome : e \in {x \in BagToSet(copyLog) :
                        x.repo = repo /\ x.image = image /\ x.tag = tag}}

\* C6: no tag is ever copied twice, and when concurrent_sync_images has
\* returned, the copy primitive was invoked exactly once for every tag of
\* the plan and the outcome map holds exactly one record for it; a timeout
\* is recorded as a failure with error 'timeout'.
C6_OnceEach ==
  /\ \A e \in PlanEntries(allConfig) : \A k \in DOMAIN e.tags :
        Invocations(e.repo, e.image, e.tags[k]) <= 1
  /\ Returned =>
       \A e \in PlanEntries(allConfig) : \A k \in DOMAIN e.tags :
          /\ Invocations(e.repo, e.image, e.tags[k]) = 1
          /\ Cardinality(Records(returned, e.repo, e.image, e.tags[k])) = 1
          /\ \A n \in Records(returned, e.repo, e.image, e.tags[k]) :
                "timeout" \in LoggedOutcomes(e.repo, e.image, e.tags[k]) =>
                   /\ ~returned[ImageKey(e.repo, e.image)].results[n].success
                   /\ returned[ImageKey(e.repo, e.image)].results[n].error = "timeout"

\* a run has returned in which a tag timed out and the tag after it, of the
\* same image, was copied
C6_Witness ==
  /\ Returned
  /\ \E e \in PlanEntries(allConfig) :
        /\ Len(e.tags) >= 2
        /\ LoggedOutcomes(e.repo, e.image, e.tags[1]) = {"timeout"}
        /\ Invocations(e.repo, e.image, e.tags[2]) = 1

\* C7: when concurrent_sync_images has returned, every tag of the plan has
\* a record, and the record says success exactly when the tag's own copy
\* invocation succeeded, whatever happened to the other tags.
C7_Isolated ==
  Returned =>
    \A e \in PlanEntries(allConfig) : \A k \in DOMAIN e.tags :
       /\ Records(returned, e.repo, e.image, e.tags[k]) # {}
       /\ \A n \in Records(returned, e.repo, e.image, e.tags[k]) :
             returned[ImageKey(e.repo, e.image)].results[n].success
               <=> LoggedOutcomes(e.repo, e.image, e.tags[k]) = {"ok"}

\* the first tag of an image timed out or failed, its second tag was
\* copied, and so was the tag of another image
C7_Witness ==
  /\ Returned
  /\ \E e, o \in PlanEntries(allConfig) :
        /\ e.image # o.image
        /\ Len(e.tags) >= 2
        /\ LoggedOutcomes(e.repo, e.image, e.tags[1]) \in {{"timeout"}, {"nonzero"}}
        /\ LoggedOutcomes(e.repo, e.image, e.tags[2]) = {"ok"}
        /\ LoggedOutcomes(o.repo, o.image, o.tags[1]) = {"ok"}
        /\ returned[ImageKey(o.repo, o.image)].success
        /\ ~returned[ImageKey(e.repo, e.image)].success

\* C8: for every image of the outcome map, the aggregate outcome is success
\* exactly when every tag planned for the image has a record with success;
\* success_count = total_count says the same, and total_count is the
\* number of planned tags.
C8_Aggregate ==
  \A key \in DOMAIN sync_results :
     \E e \in PlanEntries(allConfig) :
        /\ ImageKey(e.repo, e.image) = key
        /\ sync_results[key].total_count = Len(e.tags)
        /\ sync_results[key].success
             <=> (sync_results[key].success_count = sync_results[key].total_count)
        /\ sync_results[key].success
             <=> \A k \in DOMAIN e.tags :
                    \E n \in Records(sync_results, e.repo, e.image, e.tags[k]) :
                       sync_results[key].results[n].success

\* an image with a copied tag and a failed tag, and an image all copied
C8_Witness ==
  \E a, b \in DOMAIN sync_results :
     /\ ~sync_results[a].success
     /\ sync_results[a].success_count > 0
     /\ sync_results[b].success
     /\ sync_results[b].total_count > 0

\* what became of a task: on the queue or not yet put, with a worker, done
Waiting(t) ==
  \/ \E k \in DOMAIN tasks : tasks[k] = t
  \/ \E k \in DOMAIN queue : ~queue[k].none /\ queue[k].task = t

\* C9: at most min(MAX_WORKERS, number of tasks) copy invocations are in
\* flight, and no item is taken by two workers: an item has at most one
\* worker, an item that waits has none and was never copied, and no tag
\* is copied twice.
C9_BoundedPool ==
  /\ BagCardinality(busy) <= Min(MAX_WORKERS, Cardinality(PlanEntries(allConfig)))
  /\ \A w \in BagToSet(busy) :
        /\ CopiesIn(w, busy) = 1
        /\ \A v \in BagToSet(busy) : v.task = w.task => v = w
        /\ ~Waiting(w.task)
  /\ \A e \in PlanEntries(allConfig) : \A k \in DOMAIN e.tags :
        /\ Invocations(e.repo, e.image, e.tags[k]) <= 1
        /\ Waiting(e) => Invocations(e.repo, e.image, e.tags[k]) = 0

\* every thread of the pool is copying and an item waits on the queue
C9_Witness ==
  /\ BagCardinality(busy) = MAX_WORKERS
  /\ idle = 0
  /\ \E k \in DOMAIN queue : ~queue[k].none

\* the ranked list a source serves for an image
Ranked(repo, image) == SortTags(FilterTags(Upstream(repo, image)))

Ended(f) == f.st \in {"finished", "collected"}

\* C10: a failed source request gives [] and a value, not an exception; a
\* failed destination read gives the first MAX_TAGS_PER_IMAGE ranked source
\* tags; and an image whose own base name was read without failure gets
\* the entry the destination's tags give it, whatever failed for other
\* images; the aggregator stores exactly what the reconciliations of an
\* image returned (the last collected one, when an image is listed twice),
\* and nothing for an image whose reconciliations returned [].
C10_FailureIsolated ==
  Planning =>
    /\ \A i \in DOMAIN futures :
          LET f == futures[i] IN
          /\ (Ended(f) /\ i \in srcFailed) => f.res = <<>>
          /\ (Ended(f) /\ f.dst = "fail") =>
                f.res = Take(Ranked(f.repo, f.image), MAX_TAGS_PER_IMAGE)
          /\ (Ended(f) /\ f.dst \in {"ok", "hit"}
                /\ BaseName(f.image) \notin dstFailed) =>
                f.res = TagsToSync(Ranked(f.repo, f.image), dest[BaseName(f.image)])
          /\ (f.st = "collected" /\ f.res # <<>>) =>
                \E e \in PlanEntries(dynConfig) :
                   e.repo = f.repo /\ e.image = f.image
    /\ \A e \in PlanEntries(dynConfig) :
          \E i \in DOMAIN futures :
             /\ futures[i].st = "collected"
             /\ futures[i].repo = e.repo /\ futures[i].image = e.image
             /\ futures[i].res = e.tags

\* the source request of one image and the destination read of another
\* failed, and a third reconciliation, of another base name, got the entry
\* its destination tags give it
C10_Witness ==
  /\ Planning
  /\ \E i, j \in DOMAIN futures :
        /\ futures[i].st = "collected" /\ futures[j].st = "collected"
        /\ futures[i].dst = "fail" /\ futures[i].res # <<>>
        /\ BaseName(futures[j].image) # BaseName(futures[i].image)
        /\ futures[j].dst = "ok"
        /\ futures[j].res # <<>>
        /\ futures[j].res # Take(Ranked(futures[j].repo, futures[j].image),
                                 MAX_TAGS_PER_IMAGE)

\* a reconciliation none of whose requests failed
Clean(i) ==
  /\ Ended(futures[i])
  /\ i \notin srcFailed
  /\ BaseName(futures[i].image) \notin dstFailed

\* the plan entry the snapshots of source and destination determine
SnapshotEntry(repo, image) ==
  IF ~image.str THEN <<>>
  ELSE TagsToSync(get_source_tags(repo, image, TRUE, Upstream(repo, image)),
                  dest[BaseName(image)])

\* the (repo, image) pairs of the primary configuration
Tracked == {<<futures[i].repo, futures[i].image>> : i \in DOMAIN futures}

\* C11: while the snapshots of source and destination are unchanged and no
\* request fails, two reconciliations of the same (registry, image) return
\* the same entry, in whatever order the pool ran them and whether they
\* read the destination or the cache; every entry of the dynamic plan is
\* the one the snapshots determine; and once the aggregation has ended the
\* plan holds exactly the pairs whose entry is not empty.
C11_Deterministic ==
  Planning =>
    /\ \A i, j \in DOMAIN futures :
          (/\ Clean(i) /\ Clean(j)
           /\ futures[i].repo = futures[j].repo
           /\ futures[i].image = futures[j].image)
          => futures[i].res = futures[j].res
    /\ (srcFailed = {} /\ dstFailed = {}) =>
          /\ \A e \in PlanEntries(dynConfig) :
                e.tags = SnapshotEntry(e.repo, e.image)
          /\ mainpc \notin {"start", "collect"} =>
                {<<e.repo, e.image>> : e \in PlanEntries(dynConfig)}
                  = {p \in Tracked : SnapshotEntry(p[1], p[2]) # <<>>}

\* the same pair was reconciled twice, once against the destination and
\* once against the cache, after a reconciliation submitted later had ended
C11_Witness ==
  /\ Planning
  /\ srcFailed = {} /\ dstFailed = {}
  /\ mainpc = "custom"
  /\ \E i, j, k \in DOMAIN futures :
        /\ i < j /\ j < k
        /\ futures[i].repo = futures[j].repo
        /\ futures[i].image = futures[j].image
        /\ futures[i].dst = "hit" /\ futures[j].dst = "ok"
        /\ futures[i].res # <<>>
        /\ futures[k].dst = "ok"

\* the handler has filtered the payload
Filtered == fpc \in {"filtered", "sorted"}

\* the lowercase form of a tag contains an excluded keyword
HasKeyword(t) ==
  \E k \in DOMAIN EXCLUDE_KEYWORDS : Contains(Lower(t), Lower(EXCLUDE_KEYWORDS[k]))

\* C12 as stated: a tag of the payload that contains "/", or has 40 or more
\* characters, or has a hyphen followed by 9 or more word characters, or
\* whose lowercase form contains an excluded keyword, is rejected: it is not
\* in the filtered list.
C12_Rejects ==
  Filtered =>
    \A k \in DOMAIN tagsIn :
       (\/ "/" \in Range(tagsIn[k])
        \/ Len(tagsIn[k]) >= MaxTagLen
        \/ HashSuffixMatch(tagsIn[k])
        \/ HasKeyword(tagsIn[k]))
       => tagsIn[k] \notin Range(all_tags)

\* a tag with a path separator has passed the filter
C12_Witness ==
  /\ Filtered
  /\ \E k \in DOMAIN all_tags : "/" \in Range(all_tags[k])

\* C13 as stated: every tag <prefix>-<digits> without excluded keyword is
\* accepted, whatever the lengths of the prefix and of the digit run.
C13_AcceptsNumericSuffix ==
  Filtered =>
    \A k \in DOMAIN tagsIn :
       (NumericSuffixMatch(tagsIn[k]) /\ ~HasKeyword(tagsIn[k]))
       => tagsIn[k] \in Range(all_tags)

\* C13, amended: a tag <prefix>-<digits> without excluded keyword is
\* accepted when it has fewer than 40 characters and no hyphen of it is
\* followed by 9 or more word characters (so the digit run has at most 8
\* digits).
C13_AcceptsShortNumericSuffix ==
  Filtered =>
    \A k \in DOMAIN tagsIn :
       (/\ NumericSuffixMatch(tagsIn[k]) /\ ~HasKeyword(tagsIn[k])
        /\ Len(tagsIn[k]) < MaxTagLen
        /\ ~HashSuffixMatch(tagsIn[k]))
       => tagsIn[k] \in Range(all_tags)

\* a revision suffix of one digit and one of eight digits were accepted,
\* one of nine digits and a tag of 40 characters were not
C13_Witness ==
  /\ Filtered
  /\ Rev8 \in Range(all_tags)
  /\ \E k \in DOMAIN tagsIn :
        /\ NumericSuffixMatch(tagsIn[k])
        /\ tagsIn[k] \notin Range(all_tags)

\* the dot-separated components of a tag after an optional leading v
Components(t) ==
  SplitDots(IF Len(t) > 0 /\ t[1] = "v" THEN SubSeq(t, 2, Len(t)) ELSE t)

\* every component parses as an integer
WellFormed(t) == \A k \in DOMAIN Components(t) : IsDigitStr(Components(t)[k])

\* the integers of a well-formed tag
Numbers(t) == [k \in DOMAIN Components(t) |-> ToInt(Components(t)[k])]

\* a < b for sequences of integers, component by component
NumLess(a, b) ==
  \/ \E k \in 1..Len(a) :
        /\ k <= Len(b)
        /\ \A j \in 1..(k - 1) : a[j] = b[j]
        /\ a[k] < b[k]
  \/ /\ Len(a) < Len(b)
     /\ \A j \in 1..Len(a) : a[j] = b[j]

\* b is a rearrangement of a (lists of distinct tags)
SameTags(a, b) == Len(a) = Len(b) /\ Range(a) = Range(b)

\* C14: when every accepted tag of the payload is well formed, the handler
\* returns the accepted tags, each once, and no tag stands before a tag
\* with greater numbers: the order is numeric and not that of the strings;
\* [1.2.0, 1.10.0, 1.2.10] comes back as [1.10.0, 1.2.10, 1.2.0]; the
\* comparison is transitive.
C14_NumericOrder ==
  (fpc = "sorted" /\ \A k \in DOMAIN all_tags : WellFormed(all_tags[k])) =>
     /\ SameTags(all_tags, FilterTags(tagsIn))
     /\ \A i, j \in DOMAIN all_tags :
           i < j => ~NumLess(Numbers(all_tags[i]), Numbers(all_tags[j]))
     /\ tagsIn = <<V1_2_0, V1_10_0, V1_2_10>>
           => all_tags = <<V1_10_0, V1_2_10, V1_2_0>>
     /\ \A a, b, c \in Range(all_tags) :
           (VersionLess(a, b) /\ VersionLess(b, c)) => VersionLess(a, c)

\* the example of the claim has been sorted
C14_Witness ==
  /\ fpc = "sorted"
  /\ tagsIn = <<V1_2_0, V1_10_0, V1_2_10>>
  /\ all_tags = <<V1_10_0, V1_2_10, V1_2_0>>

\* at the first position where the keys of s and t differ, s has a number
\* and t has none
NumericMeetsText(s, t) ==
  LET d == FirstDiff(_version_key(s), _version_key(t))
  IN  d # 0 /\ _version_key(s)[d].num /\ ~_version_key(t)[d].num

\* C15 as stated: in the returned list a tag whose key has a number where
\* the key of another tag has a text component stands before that tag, and
\* the well-formed tags of the list stand in numeric order.
C15_NumericFirst ==
  fpc = "sorted" =>
    \A i, j \in DOMAIN all_tags :
       /\ NumericMeetsText(all_tags[i], all_tags[j]) => i < j
       /\ (i < j /\ WellFormed(all_tags[i]) /\ WellFormed(all_tags[j]))
            => ~NumLess(Numbers(all_tags[i]), Numbers(all_tags[j]))

\* a list with a text tag and two numeric tags has been sorted
C15_Witness ==
  /\ fpc = "sorted"
  /\ SameTags(all_tags, <<V1_9, V1_10_0, Stable>>)

\* the lists that hold the tags of l in some order
Orders(l) == {m \in [DOMAIN l -> Range(l)] : Range(m) = Range(l)}

\* C16 as stated: the returned list holds only accepted tags, two tags with
\* equal keys stand in reverse lexical order of their names, and the list
\* is the same for every order in which the source lists the same tags.
C16_TotalOrder ==
  fpc = "sorted" =>
    /\ \A k \in DOMAIN all_tags : Accepted(all_tags[k])
    /\ \A i, j \in DOMAIN all_tags :
          (i < j /\ _version_key(all_tags[i]) = _version_key(all_tags[j]))
          => StrLess(all_tags[j], all_tags[i])
    /\ \A m \in Orders(tagsIn) : SortTags(FilterTags(m)) = all_tags

\* two tags with equal keys have been sorted
C16_Witness ==
  /\ fpc = "sorted"
  /\ \E i, j \in DOMAIN all_tags :
        /\ i # j
        /\ _version_key(all_tags[i]) = _version_key(all_tags[j])

\* the tags of the per-tag records of a result, in order
RecordTags(result) == [k \in DOMAIN result.results |-> result.results[k].tag]

\* C17: every entry of the outcome map is the outcome of the image it is
\* stored under, and when concurrent_sync_images has returned, the map it
\* returned has exactly one entry for every (registry, image) of the plan
\* that has tags, and no other entry.
C17_OutcomeMap ==
  /\ \A key \in DOMAIN sync_results :
        \E e \in PlanEntries(allConfig) :
           /\ key = ImageKey(e.repo, e.image)
           /\ sync_results[key].source = key
           /\ RecordTags(sync_results[key]) = e.tags
  /\ Returned =>
        /\ DOMAIN returned =
              {ImageKey(e.repo, e.image) : e \in PlanEntries(allConfig)}
        /\ \A e \in PlanEntries(allConfig) :
              /\ returned[ImageKey(e.repo, e.image)].source
                    = ImageKey(e.repo, e.image)
              /\ RecordTags(returned[ImageKey(e.repo, e.image)]) = e.tags

\* the call has returned a map with the outcomes of two images, each
\* copied up to its last tag by its worker
C17_Witness ==
  /\ Returned
  /\ \E a, b \in DOMAIN returned : a # b
  /\ \E x, y \in BagToSet(copyLog) :
        /\ x.image # y.image
        /\ x.tag = Last(returned[ImageKey(x.repo, x.image)].results).tag
        /\ y.tag = returned[ImageKey(y.repo, y.image)].results[1].tag

\* the executor has been started: threads exist, or an item is queued
Executing ==
  \/ Threads > 0
  \/ queue # <<>>
  \/ copyLog # EmptyBag

\* C18: in a run of main(), when the executor has started (and so before
\* any copy invocation), every reconciliation of the pool has returned and
\* been collected, every curated image has been diffed, and the plan the
\* executor works on is the merged plan of the two stages.
C18_NotPipelined ==
  (entry = "main" /\ Executing) =>
     /\ \A i \in DOMAIN futures : futures[i].st = "collected"
     /\ customTodo = <<>>
     /\ mainpc \in {"put", "join", "wait", "returned", "done"}
     /\ allConfig = MergeConfig(MergeConfig(<<>>, dynConfig), customConfig)

\* a copy runs on a plan merged from a dynamic and a curated entry
C18_Witness ==
  /\ entry = "main"
  /\ busy # EmptyBag
  /\ copyLog # EmptyBag
  /\ \E d \in PlanEntries(dynConfig), c \in PlanEntries(customConfig) :
        d \in PlanEntries(allConfig) /\ c \in PlanEntries(allConfig)

\* C19 as stated: within a run the destination is asked at most once for
\* each base name, and all reconciliations of a base name see the same
\* tag set.
C19_ReadOnce ==
  /\ \A b \in BaseNames : destReads[b] <= 1
  /\ \A i, j \in DOMAIN futures :
        (/\ futures[i].dst # "none" /\ futures[j].dst # "none"
         /\ BaseName(futures[i].image) = BaseName(futures[j].image))
        => futures[i].tt = futures[j].tt

\* two reconciliations of one base name have both read the destination
C19_Witness ==
  \E i, j \in DOMAIN futures :
     /\ i # j
     /\ BaseName(futures[i].image) = BaseName(futures[j].image)
     /\ futures[i].dst \in {"ok", "fail"}
     /\ futures[j].dst \in {"ok", "fail"}

\* the registries, images and tags a curated configuration file holds
Curation(file) ==
  [exists |-> file.exists,
   repos |-> {file.repos[k].repo : k \in DOMAIN file.repos},
   tags |-> {<<e.repo, e.image, e.tags>> : e \in Range(ConfigItems(file.repos))}]

\* C20 as stated: throughout a run of main() the primary configuration and
\* the curated configuration hold the registries, images and tags they held
\* before the run.
C20_ConfigKept ==
  entry = "main" =>
    /\ configFile = filesBefore.config
    /\ Curation(customFile) = Curation(filesBefore.custom)

\* the run has ended and the curated file has lost a tag
C20_Witness ==
  /\ entry = "main"
  /\ mainpc = "done"
  /\ \E e \in Range(ConfigItems(filesBefore.custom.repos)) :
        \A x \in Range(ConfigItems(customFile.repos)) :
           ~(x.repo = e.repo /\ x.image = e.image /\ x.tags = e.tags)

\* what a reconciliation hands back: the list get_source_tags returned and
\* the list compare_and_generate_sync_list returned
Outcome(f) == [source_tags |-> f.src, tags_to_sync |-> f.res]

\* C21 as stated: the outcome of a reconciliation for a host without
\* handler differs from the outcome for a host with a handler whose
\* registry answered and listed no tag.
C21_UnsupportedExplicit ==
  \A i, j \in DOMAIN futures :
     (/\ Ended(futures[i]) /\ Ended(futures[j])
      /\ futures[i].repo \notin SourceHandlers
      /\ futures[j].repo \in SourceHandlers
      /\ j \notin srcFailed
      /\ futures[j].src = <<>>)
     => Outcome(futures[i]) # Outcome(futures[j])

\* a host without handler and a registry without tags have both been
\* reconciled and collected, and neither left a trace in the plan
C21_Witness ==
  /\ mainpc = "custom"
  /\ srcFailed = {}
  /\ \E i, j \in DOMAIN futures :
        /\ futures[i].repo = Unsupported
        /\ futures[j].repo \in SourceHandlers
        /\ futures[i].st = "collected" /\ futures[j].st = "collected"
        /\ futures[i].res = <<>> /\ futures[j].res = <<>>
  /\ PlanEntries(dynConfig) = {}

====
